---------------------------- MODULE Spec2Model ----------------------------
(***************************************************************************)
(* Model of vanilla-demos-only/serve-demo.py: a static file server built   *)
(* on http.server.SimpleHTTPRequestHandler and socketserver.TCPServer that *)
(* adds four CORS/cache headers in end_headers and answers OPTIONS with a  *)
(* bare 200.                                                               *)
(*                                                                         *)
(* The script's own code is lines 12-68.  What it inherits or calls from   *)
(* the standard library (request-line parsing, send_response, send_error,  *)
(* send_head, serve_forever, shutdown) is modelled after CPython 3.11's    *)
(* http/server.py and socketserver.py, next to the line of the script that *)
(* inherits or calls it.                                                   *)
(***************************************************************************)
EXTENDS Integers, Sequences, FiniteSets, TLC

VARIABLES
    pc,               \* position of the main (and only) thread
    argv,             \* sys.argv[1:], each argument a sequence of characters
    port,             \* the port handed to run_server
    cwd,              \* the process working directory
    sock,             \* the listening socket: [bound, host, port]
    bindAttempts,     \* number of times a bind was attempted
    startupError,     \* "none" or the exception that ended startup
    shutdown_request, \* BaseServer.__shutdown_request
    is_shut_down,     \* BaseServer.__is_shut_down (threading.Event)
    backlog,          \* connections waiting in the listen queue
    active,           \* connections accepted and not yet closed
    resp,             \* the response written on the connection being handled
    prev,             \* an earlier exchange a client kept, for comparison
    fs,               \* the files of the script's directory: file -> <<>> or <<mtime>>
    epoch,            \* number of edits made to the served files so far
    clock,            \* wall-clock time in seconds
    printed,          \* kinds of text written to the console
    requestErrors,    \* whether some request ended in an error response or an exception
    enteredLoop,      \* whether serve_forever was ever entered
    sigAt,            \* where the interrupt signal found the thread: none, outside, entry, loop
    exitStatus        \* the process exit status, meaningful once pc = "exited"

vars == <<pc, argv, port, cwd, sock, bindAttempts, startupError, shutdown_request,
          is_shut_down, backlog, active, resp, prev, fs, epoch, clock, printed,
          requestErrors, enteredLoop, sigAt, exitStatus>>

-----------------------------------------------------------------------------
(* Bounds of the model *)

MaxClock == 1
MaxEdits == 1
MaxBacklog == 1

(* Program and platform constants *)

DefaultPort == 8080
MaxPort == 65535
FirstUnprivilegedPort == 1024
EphemeralPorts == {49152}

ScriptDir == "scriptdir"
CallerDir == "callerdir"

-----------------------------------------------------------------------------
(* Command-line arguments                                                  *)

Digits == <<"0", "1", "2", "3", "4", "5", "6", "7", "8", "9">>

IsDigit(c) == \E i \in 1..10 : Digits[i] = c

DigitValue(c) == (CHOOSE i \in 1..10 : Digits[i] = c) - 1

RECURSIVE StripLeft(_)
StripLeft(s) == IF s # <<>> /\ Head(s) = " " THEN StripLeft(Tail(s)) ELSE s

RECURSIVE StripRight(_)
StripRight(s) ==
    IF s # <<>> /\ s[Len(s)] = " " THEN StripRight(SubSeq(s, 1, Len(s) - 1)) ELSE s

RECURSIVE DecimalValue(_)
DecimalValue(ds) ==
    IF ds = <<>> THEN 0
    ELSE 10 * DecimalValue(SubSeq(ds, 1, Len(ds) - 1)) + DigitValue(ds[Len(ds)])

\* int(s) of Python for a decimal literal: surrounding blanks stripped, an
\* optional sign, then one or more digits; anything else is a ValueError.
int(s) ==
    LET t == StripRight(StripLeft(s))
        signed == t # <<>> /\ Head(t) \in {"-", "+"}
        ds == IF signed THEN Tail(t) ELSE t
        good == ds # <<>> /\ \A i \in 1..Len(ds) : IsDigit(ds[i])
    IN  IF ~good THEN [ok |-> FALSE, val |-> 0]
        ELSE [ok |-> TRUE,
              val |-> IF signed /\ Head(t) = "-" THEN 0 - DecimalValue(ds)
                      ELSE DecimalValue(ds)]

ArgvChoices ==
    { <<>>,
      << <<"9", "0", "9", "0">> >>,
      << <<"8", "0">> >>,
      << <<"0">> >>,
      << <<"-", "1">> >>,
      << <<"7", "0", "0", "0", "0">> >>,
      << <<"a", "b", "c">> >>,
      << <<" ", "-", "1", " ">>, <<"x">> >>,
      << <<>> >> }

Files == {"/api-client-demo.html", "/index.html"}

NoResp == [sent |-> FALSE]
NoPrev == [kept |-> FALSE]

Init ==
    /\ pc = "main"
    /\ argv \in ArgvChoices
    /\ port = 0
    /\ cwd = CallerDir
    /\ sock = [bound |-> FALSE, host |-> "", port |-> 0]
    /\ bindAttempts = 0
    /\ startupError = "none"
    /\ shutdown_request = FALSE
    /\ is_shut_down = FALSE
    /\ backlog = 0
    /\ active = <<>>
    /\ resp = NoResp
    /\ prev = NoPrev
    /\ fs = [f \in Files |-> IF f = "/api-client-demo.html" THEN <<0>> ELSE <<>>]
    /\ epoch = 0
    /\ clock = 0
    /\ printed = {}
    /\ requestErrors = FALSE
    /\ enteredLoop = FALSE
    /\ sigAt = "none"
    /\ exitStatus = 0

-----------------------------------------------------------------------------
(* Startup: __main__ and run_server                                        *)

\* An exception nobody catches: traceback on the console, status 1.
Die(err) ==
    /\ pc' = "exited"
    /\ exitStatus' = 1
    /\ startupError' = err
    /\ printed' = printed \cup {"traceback"}

\* Variant: the default of python -m http.server, 8000, instead of 8080.
ParsePort_default8000(args) ==
    IF Len(args) > 0 THEN int(args[1]) ELSE [ok |-> TRUE, val |-> 8000]

\* line 66: port = int(sys.argv[1]) if len(sys.argv) > 1 else 8080
ParsePort(args) == IF Len(args) > 0 THEN int(args[1]) ELSE [ok |-> TRUE, val |-> DefaultPort]

Main ==
    /\ pc = "main"
    /\ LET p == ParsePort(argv)
       IN  IF p.ok
           THEN /\ port' = p.val
                /\ pc' = "run_server"
                /\ UNCHANGED <<exitStatus, startupError, printed>>
           ELSE /\ Die("ValueError")
                /\ UNCHANGED port
    /\ UNCHANGED <<argv, cwd, sock, bindAttempts, shutdown_request, is_shut_down,
                   backlog, active, resp, prev, fs, epoch, clock, requestErrors,
                   enteredLoop, sigAt>>

\* line 35: os.chdir(os.path.dirname(os.path.abspath(__file__)))
Chdir ==
    /\ pc = "run_server"
    /\ cwd' = ScriptDir
    /\ pc' = "bind"
    /\ UNCHANGED <<argv, port, sock, bindAttempts, startupError, shutdown_request,
                   is_shut_down, backlog, active, resp, prev, fs, epoch, clock,
                   printed, requestErrors, enteredLoop, sigAt, exitStatus>>

\* The outcome of bind(("", p)), given whether the port is taken by another
\* process and whether the process may bind privileged ports.
BindOutcome(p, taken, privileged) ==
    IF p < 0 \/ p > MaxPort THEN "OverflowError"
    ELSE IF p # 0 /\ p < FirstUnprivilegedPort /\ ~privileged THEN "PermissionError"
    ELSE IF p # 0 /\ taken THEN "AddressInUse"
    ELSE "ok"

\* Variant: a failed bind is retried once on the next port.
TCPServerInit_retry ==
    /\ pc = "bind"
    /\ bindAttempts' = bindAttempts + 1
    /\ \E taken \in BOOLEAN, privileged \in BOOLEAN, eph \in EphemeralPorts :
         LET out == BindOutcome(port, taken, privileged)
         IN  IF out = "ok"
             THEN /\ sock' = [bound |-> TRUE, host |-> "",
                              port |-> IF port = 0 THEN eph ELSE port]
                  /\ pc' = "banner"
                  /\ UNCHANGED <<exitStatus, startupError, printed, port>>
             ELSE IF bindAttempts = 0
             THEN /\ port' = port + 1
                  /\ UNCHANGED <<pc, sock, exitStatus, startupError, printed>>
             ELSE /\ Die(out)
                  /\ UNCHANGED <<sock, port>>
    /\ UNCHANGED <<argv, cwd, shutdown_request, is_shut_down, backlog, active,
                   resp, prev, fs, epoch, clock, requestErrors, enteredLoop, sigAt>>

\* line 37: socketserver.TCPServer(("", port), Handler): one bind, no retry;
\* a failure closes the socket and propagates out of run_server.
TCPServerInit ==
    /\ pc = "bind"
    /\ bindAttempts' = bindAttempts + 1
    /\ \E taken \in BOOLEAN, privileged \in BOOLEAN, eph \in EphemeralPorts :
         LET out == BindOutcome(port, taken, privileged)
         IN  IF out = "ok"
             THEN /\ sock' = [bound |-> TRUE, host |-> "",
                              port |-> IF port = 0 THEN eph ELSE port]
                  /\ pc' = "banner"
                  /\ UNCHANGED <<exitStatus, startupError, printed>>
             ELSE /\ Die(out)
                  /\ UNCHANGED sock
    /\ UNCHANGED <<argv, port, cwd, shutdown_request, is_shut_down, backlog, active,
                   resp, prev, fs, epoch, clock, requestErrors, enteredLoop, sigAt>>

\* lines 38-54: the banner
PrintBanner ==
    /\ pc = "banner"
    /\ printed' = printed \cup {"banner"}
    /\ pc' = "try"
    /\ UNCHANGED <<argv, port, cwd, sock, bindAttempts, startupError,
                   shutdown_request, is_shut_down, backlog, active, resp, prev, fs,
                   epoch, clock, requestErrors, enteredLoop, sigAt, exitStatus>>

-----------------------------------------------------------------------------
(* The request handler: CORSHTTPRequestHandler(SimpleHTTPRequestHandler)   *)

Methods == {"GET", "HEAD", "OPTIONS", "POST", "PUT", "DELETE"}
Paths == {"/", "/api-client-demo.html", "/sub", "/nope"}

\* Request lines, as the words of the line.
RequestLines ==
    {<<m, p, "HTTP/1.1">> : m \in Methods, p \in Paths}
    \cup {<<m, "/nope", v>> : m \in {"GET", "OPTIONS", "POST"},
                              v \in {"HTTP/1.0", "HTTP/0.9", "HTTP/2.0", "FTP/1"}}
    \cup {<<m, p>> : m \in {"GET", "OPTIONS"}, p \in {"/api-client-demo.html", "/nope"}}
    \cup {<<"garbage">>}

\* The (major, minor) pair of a version word, <<>> when it does not parse.
VersionNumber(v) ==
    CASE v = "HTTP/0.9" -> <<0, 9>>
      [] v = "HTTP/1.0" -> <<1, 0>>
      [] v = "HTTP/1.1" -> <<1, 1>>
      [] v = "HTTP/2.0" -> <<2, 0>>
      [] OTHER -> <<>>

\* A handler at the start of handle_one_request: default_request_version is
\* HTTP/0.9, nothing buffered, nothing written.
NewHandler ==
    [request_version |-> "HTTP/0.9", command |-> "", path |-> "", ok |-> FALSE,
     code |-> 0, status_line |-> FALSE, headers |-> <<>>, flushed |-> FALSE,
     body |-> <<>>, f |-> <<>>, fsConsulted |-> FALSE, logged |-> FALSE]

\* BaseHTTPRequestHandler.send_response_only: the status line is buffered
\* unless the request is an HTTP/0.9 one.
send_response_only(h, code) ==
    [h EXCEPT !.code = code, !.status_line = (h.request_version # "HTTP/0.9")]

\* BaseHTTPRequestHandler.send_header: the header is buffered unless the
\* request is an HTTP/0.9 one.
send_header(h, keyword, value) ==
    IF h.request_version # "HTTP/0.9"
    THEN [h EXCEPT !.headers = Append(@, <<keyword, value>>)]
    ELSE h

\* BaseHTTPRequestHandler.end_headers: the buffer is flushed to the
\* connection unless the request is an HTTP/0.9 one.
base_end_headers(h) ==
    IF h.request_version # "HTTP/0.9" THEN [h EXCEPT !.flushed = TRUE] ELSE h

\* Variant: the Cache-Control header is left out.
end_headers_no_cache(h) ==
    base_end_headers(
        send_header(
            send_header(
                send_header(h, "Access-Control-Allow-Origin", <<"*">>),
                "Access-Control-Allow-Methods", <<"GET, POST, PUT, DELETE, OPTIONS">>),
            "Access-Control-Allow-Headers", <<"Content-Type, Authorization">>))

\* Variant: the four headers are added to successful responses only.
end_headers_success_only(h) ==
    IF h.code >= 400 THEN base_end_headers(h)
    ELSE base_end_headers(
        send_header(
            send_header(
                send_header(
                    send_header(h, "Access-Control-Allow-Origin", <<"*">>),
                    "Access-Control-Allow-Methods", <<"GET, POST, PUT, DELETE, OPTIONS">>),
                "Access-Control-Allow-Headers", <<"Content-Type, Authorization">>),
            "Cache-Control", <<"no-cache, no-store, must-revalidate">>))

\* Variant: caching is also switched off with an Expires header carrying the
\* time of the response.
end_headers_with_expires(h) ==
    base_end_headers(
        send_header(
            send_header(
                send_header(
                    send_header(
                        send_header(h, "Access-Control-Allow-Origin", <<"*">>),
                        "Access-Control-Allow-Methods", <<"GET, POST, PUT, DELETE, OPTIONS">>),
                    "Access-Control-Allow-Headers", <<"Content-Type, Authorization">>),
                "Cache-Control", <<"no-cache, no-store, must-revalidate">>),
            "Expires", <<ToString(clock)>>))

\* lines 15-20
end_headers(h) ==
    base_end_headers(
        send_header(
            send_header(
                send_header(
                    send_header(h, "Access-Control-Allow-Origin", <<"*">>),
                    "Access-Control-Allow-Methods", <<"GET, POST, PUT, DELETE, OPTIONS">>),
                "Access-Control-Allow-Headers", <<"Content-Type, Authorization">>),
            "Cache-Control", <<"no-cache, no-store, must-revalidate">>))

\* lines 26-28: log_message prints one line per logged event.
log_message(h) == [h EXCEPT !.logged = TRUE]

\* BaseHTTPRequestHandler.send_response: log, status line, Server and Date.
send_response(h, code) ==
    send_header(
        send_header(send_response_only(log_message(h), code),
                    "Server", <<"SimpleHTTP/0.6">>),
        "Date", <<ToString(clock)>>)

ErrorBody(h, code) == <<"error", ToString(code), h.command>>

\* BaseHTTPRequestHandler.send_error: an HTML error page, no body for HEAD.
send_error(h, code) ==
    LET h1 == send_header(send_response(log_message(h), code), "Connection", <<"close">>)
        h2 == send_header(send_header(h1, "Content-Type", <<"text/html;charset=utf-8">>),
                          "Content-Length", ErrorBody(h, code))
        h3 == end_headers(h2)
    IN  IF h.command # "HEAD" THEN [h3 EXCEPT !.body = ErrorBody(h, code)] ELSE h3

\* Variant: the class has no do_OPTIONS, so OPTIONS is an unsupported method.
do_OPTIONS_missing(h) == send_error(h, 501)

\* lines 22-24
do_OPTIONS(h) == end_headers(send_response(h, 200))

\* BaseHTTPRequestHandler.parse_request, for a request line of 1 to 3 words.
parse_request(words) ==
    LET h == NewHandler
        vn == VersionNumber(words[Len(words)])
    IN  IF Len(words) >= 3 /\ vn = <<>> THEN send_error(h, 400)
        ELSE IF Len(words) >= 3 /\ vn[1] >= 2 THEN send_error(h, 505)
        ELSE LET hv == IF Len(words) >= 3
                       THEN [h EXCEPT !.request_version = words[Len(words)]]
                       ELSE h
             IN  IF Len(words) < 2 THEN send_error(hv, 400)
                 ELSE IF Len(words) = 2 /\ words[1] # "GET" THEN send_error(hv, 400)
                 ELSE [hv EXCEPT !.command = words[1], !.path = words[2], !.ok = TRUE]

Dirs == {"/", "/sub"}
EndsWithSlash(p) == p = "/"
IndexOf(d) == IF d = "/" THEN <<"/index.html">> ELSE <<>>

\* SimpleHTTPRequestHandler.translate_path: the URL path under the working
\* directory.
translate_path(p) == [dir |-> cwd, rel |-> p]
isdir(t) == t.dir = ScriptDir /\ t.rel \in Dirs
isfile(t) == t.dir = ScriptDir /\ t.rel \in Files /\ fs[t.rel] # <<>>

FileBody(t) == <<"file", t.rel, ToString(fs[t.rel][1])>>
ListingBody(t) ==
    <<"listing", t.rel>> \o
    (IF isfile([t EXCEPT !.rel = "/api-client-demo.html"]) THEN <<"api-client-demo.html">> ELSE <<>>) \o
    (IF isfile([t EXCEPT !.rel = "/index.html"]) THEN <<"index.html">> ELSE <<>>)

\* SimpleHTTPRequestHandler.send_head with list_directory: the headers of a
\* GET or HEAD response; h.f is the file object to copy, <<>> when none.
send_head(h) ==
    LET h0 == [h EXCEPT !.fsConsulted = TRUE]
        t == translate_path(h.path)
        sendFile(tf) ==
            IF ~isfile(tf) THEN send_error(h0, 404)
            ELSE [end_headers(
                    send_header(
                      send_header(
                        send_header(send_response(h0, 200), "Content-type", <<"text/html">>),
                        "Content-Length", FileBody(tf)),
                      "Last-Modified", <<ToString(fs[tf.rel][1])>>))
                  EXCEPT !.f = FileBody(tf)]
    IN  IF isdir(t)
        THEN IF ~EndsWithSlash(h.path)
             THEN end_headers(
                    send_header(
                      send_header(send_response(h0, 301), "Location", <<h.path, "/">>),
                      "Content-Length", <<"0">>))
             ELSE IF IndexOf(t.rel) # <<>> /\ isfile([t EXCEPT !.rel = IndexOf(t.rel)[1]])
             THEN sendFile([t EXCEPT !.rel = IndexOf(t.rel)[1]])
             ELSE [end_headers(
                     send_header(
                       send_header(send_response(h0, 200),
                                   "Content-type", <<"text/html; charset=utf-8">>),
                       "Content-Length", ListingBody(t)))
                   EXCEPT !.f = ListingBody(t)]
        ELSE sendFile(t)

\* SimpleHTTPRequestHandler.do_GET: send_head, then copy the file.
do_GET(h) == LET h1 == send_head(h) IN [h1 EXCEPT !.body = IF h1.f # <<>> THEN h1.f ELSE @]

\* SimpleHTTPRequestHandler.do_HEAD: send_head only.
do_HEAD(h) == send_head(h)

\* Variant: the advertised methods are given handlers too.
HasMethod_advertised(command) == command \in {"GET", "HEAD", "OPTIONS", "POST", "PUT", "DELETE"}

\* The do_* methods the class has: the two it inherits and the one it adds.
HasMethod(command) == command \in {"GET", "HEAD", "OPTIONS"}

\* BaseHTTPRequestHandler.handle_one_request
handle_one_request(words) ==
    LET h == parse_request(words)
    IN  IF ~h.ok THEN h
        ELSE IF ~HasMethod(h.command) THEN send_error(h, 501)
        ELSE IF h.command = "OPTIONS" THEN do_OPTIONS(h)
        ELSE IF h.command = "GET" THEN do_GET(h)
        ELSE do_HEAD(h)

\* What the client receives.
Response(words, h) ==
    [sent |-> TRUE, line |-> words, command |-> h.command,
     request_version |-> h.request_version, code |-> h.code,
     status_line |-> h.status_line,
     headers |-> IF h.flushed THEN h.headers ELSE <<>>,
     body |-> h.body, fsConsulted |-> h.fsConsulted, epoch |-> epoch]

\* The handler only reads the served files.
FsAfter(h) == fs

-----------------------------------------------------------------------------
(* The serve loop: lines 56-60 with socketserver.BaseServer                *)

\* line 57: serve_forever() begins: self.__is_shut_down.clear()
ServeForever ==
    /\ pc = "try"
    /\ is_shut_down' = FALSE
    /\ enteredLoop' = TRUE
    /\ pc' = "select"
    /\ UNCHANGED <<argv, port, cwd, sock, bindAttempts, startupError,
                   shutdown_request, backlog, active, resp, prev, fs, epoch, clock,
                   printed, requestErrors, sigAt, exitStatus>>

\* Variant: a threading server, which accepts while a request is in handling.
Accept_threaded ==
    /\ pc \in {"select", "handling", "responded"}
    /\ ~shutdown_request
    /\ backlog > 0
    /\ backlog' = backlog - 1
    /\ active' = Append(active, "connection")
    /\ pc' = "handling"
    /\ UNCHANGED <<argv, port, cwd, sock, bindAttempts, startupError,
                   shutdown_request, is_shut_down, resp, prev, fs, epoch, clock,
                   printed, requestErrors, enteredLoop, sigAt, exitStatus>>

\* line 37: TCPServer is not a ThreadingMixIn server: the thread that accepts
\* is the thread that handles, so it accepts only from select().
Accept ==
    /\ pc = "select"
    /\ ~shutdown_request
    /\ backlog > 0
    /\ backlog' = backlog - 1
    /\ active' = Append(active, "connection")
    /\ pc' = "handling"
    /\ UNCHANGED <<argv, port, cwd, sock, bindAttempts, startupError,
                   shutdown_request, is_shut_down, resp, prev, fs, epoch, clock,
                   printed, requestErrors, enteredLoop, sigAt, exitStatus>>

\* The handler reads one request line and writes its response.
HandleRequest ==
    /\ pc = "handling"
    /\ \E words \in RequestLines :
         LET h == handle_one_request(words)
         IN  /\ resp' = Response(words, h)
             /\ fs' = FsAfter(h)
             /\ printed' = IF h.logged THEN printed \cup {"log"} ELSE printed
             /\ requestErrors' = (requestErrors \/ h.code >= 400)
    /\ pc' = "responded"
    /\ UNCHANGED <<argv, port, cwd, sock, bindAttempts, startupError,
                   shutdown_request, is_shut_down, backlog, active, prev, epoch,
                   clock, enteredLoop, sigAt, exitStatus>>

\* Variant: the exception of a handler leaves serve_forever and ends the
\* process.
HandleError_crash ==
    /\ pc = "handling"
    /\ printed' = printed \cup {"traceback"}
    /\ requestErrors' = TRUE
    /\ active' = <<>>
    /\ resp' = NoResp
    /\ sock' = [sock EXCEPT !.bound = FALSE]
    /\ backlog' = 0
    /\ exitStatus' = 1
    /\ pc' = "exited"
    /\ UNCHANGED <<argv, port, cwd, bindAttempts, startupError, shutdown_request,
                   is_shut_down, prev, fs, epoch, clock, enteredLoop, sigAt>>

\* An exception in the handler (the client reset the connection, a read of
\* the file failed): _handle_request_noblock catches Exception, prints the
\* traceback, closes the connection, and the loop goes on.
HandleError ==
    /\ pc = "handling"
    /\ printed' = printed \cup {"traceback"}
    /\ requestErrors' = TRUE
    /\ active' = <<>>
    /\ resp' = NoResp
    /\ pc' = "select"
    /\ UNCHANGED <<argv, port, cwd, sock, bindAttempts, startupError,
                   shutdown_request, is_shut_down, backlog, prev, fs, epoch, clock,
                   enteredLoop, sigAt, exitStatus>>

\* The connection is closed; the client may keep the exchange of a GET to
\* compare with a later one.
FinishRequest ==
    /\ pc = "responded"
    /\ active' = Tail(active)
    /\ resp' = NoResp
    /\ \/ prev' = prev
       \/ /\ resp.command = "GET"
          /\ prev' = [kept |-> TRUE, r |-> resp]
    /\ pc' = "select"
    /\ UNCHANGED <<argv, port, cwd, sock, bindAttempts, startupError,
                   shutdown_request, is_shut_down, backlog, fs, epoch, clock,
                   printed, requestErrors, enteredLoop, sigAt, exitStatus>>

\* The interrupt signal (Ctrl-C), delivered once.
\*  - in the serve loop: KeyboardInterrupt leaves serve_forever through its
\*    finally clause (the flag is reset, the event is set); a connection
\*    being handled is closed without being drained;
\*  - inside the try but before serve_forever's own try/finally: the
\*    exception reaches the handler with the event still clear;
\*  - anywhere before: nobody catches it; the with statement closes the
\*    socket if it was bound.
KeyboardInterrupt ==
    /\ sigAt = "none"
    /\ pc \in {"main", "run_server", "bind", "banner", "try", "select", "handling", "responded"}
    /\ IF pc \in {"select", "handling", "responded"}
       THEN /\ sigAt' = "loop"
            /\ shutdown_request' = FALSE
            /\ is_shut_down' = TRUE
            /\ active' = <<>>
            /\ resp' = NoResp
            /\ pc' = "except"
            /\ UNCHANGED <<sock, backlog, printed, exitStatus>>
       ELSE IF pc = "try"
       THEN /\ sigAt' = "entry"
            /\ pc' = "except"
            /\ UNCHANGED <<shutdown_request, is_shut_down, active, resp, sock,
                           backlog, printed, exitStatus>>
       ELSE /\ sigAt' = "outside"
            /\ sock' = [sock EXCEPT !.bound = FALSE]
            /\ backlog' = 0
            /\ printed' = printed \cup {"traceback"}
            /\ exitStatus' = 130
            /\ pc' = "exited"
            /\ UNCHANGED <<shutdown_request, is_shut_down, active, resp>>
    /\ UNCHANGED <<argv, port, cwd, bindAttempts, startupError, prev, fs, epoch,
                   clock, requestErrors, enteredLoop>>

\* Variant: no except clause; the interrupt ends the process as an uncaught
\* exception.
ExceptKeyboardInterrupt_uncaught ==
    /\ pc = "except"
    /\ printed' = printed \cup {"traceback"}
    /\ sock' = [sock EXCEPT !.bound = FALSE]
    /\ backlog' = 0
    /\ exitStatus' = 130
    /\ pc' = "exited"
    /\ UNCHANGED <<argv, port, cwd, bindAttempts, startupError, shutdown_request,
                   is_shut_down, active, resp, prev, fs, epoch, clock,
                   requestErrors, enteredLoop, sigAt>>

\* lines 58-60: except KeyboardInterrupt: print the notice, call
\* httpd.shutdown(), whose first statement sets the flag.
ExceptKeyboardInterrupt ==
    /\ pc = "except"
    /\ printed' = printed \cup {"stopped"}
    /\ shutdown_request' = TRUE
    /\ pc' = "shutdown_wait"
    /\ UNCHANGED <<argv, port, cwd, sock, bindAttempts, startupError, is_shut_down,
                   backlog, active, resp, prev, fs, epoch, clock, requestErrors,
                   enteredLoop, sigAt, exitStatus>>

\* line 60: shutdown() then blocks in self.__is_shut_down.wait().
ShutdownWait ==
    /\ pc = "shutdown_wait"
    /\ is_shut_down
    /\ pc' = "with_exit"
    /\ UNCHANGED <<argv, port, cwd, sock, bindAttempts, startupError,
                   shutdown_request, is_shut_down, backlog, active, resp, prev, fs,
                   epoch, clock, printed, requestErrors, enteredLoop, sigAt,
                   exitStatus>>

\* line 37: leaving the with block runs server_close(); run_server returns
\* and the script ends.
ServerClose ==
    /\ pc = "with_exit"
    /\ sock' = [sock EXCEPT !.bound = FALSE]
    /\ backlog' = 0
    /\ exitStatus' = 0
    /\ pc' = "exited"
    /\ UNCHANGED <<argv, port, cwd, bindAttempts, startupError, shutdown_request,
                   is_shut_down, active, resp, prev, fs, epoch, clock, printed,
                   requestErrors, enteredLoop, sigAt>>

-----------------------------------------------------------------------------
(* The environment                                                         *)

\* A client connects; the kernel queues the connection.
Connect ==
    /\ sock.bound
    /\ backlog < MaxBacklog
    /\ backlog' = backlog + 1
    /\ UNCHANGED <<pc, argv, port, cwd, sock, bindAttempts, startupError,
                   shutdown_request, is_shut_down, active, resp, prev, fs, epoch,
                   clock, printed, requestErrors, enteredLoop, sigAt, exitStatus>>

\* A second passes between two requests.
Tick ==
    /\ pc = "select"
    /\ clock < MaxClock
    /\ clock' = clock + 1
    /\ UNCHANGED <<pc, argv, port, cwd, sock, bindAttempts, startupError,
                   shutdown_request, is_shut_down, backlog, active, resp, prev, fs,
                   epoch, printed, requestErrors, enteredLoop, sigAt, exitStatus>>

\* The developer deletes or rewrites a served file between two requests;
\* an exchange kept for comparison is only kept while the files are unchanged.
EditFile ==
    /\ pc = "select"
    /\ epoch < MaxEdits
    /\ \E f \in Files, c \in {<<>>, <<epoch + 1>>} :
         /\ fs[f] # c
         /\ fs' = [fs EXCEPT ![f] = c]
    /\ epoch' = epoch + 1
    /\ prev' = NoPrev
    /\ UNCHANGED <<pc, argv, port, cwd, sock, bindAttempts, startupError,
                   shutdown_request, is_shut_down, backlog, active, resp,
                   clock, printed, requestErrors, enteredLoop, sigAt, exitStatus>>

-----------------------------------------------------------------------------
(* Properties                                                              *)

CORSHeaders ==
    { <<"Access-Control-Allow-Origin", <<"*">> >>,
      <<"Access-Control-Allow-Methods", <<"GET, POST, PUT, DELETE, OPTIONS">> >>,
      <<"Access-Control-Allow-Headers", <<"Content-Type, Authorization">> >>,
      <<"Cache-Control", <<"no-cache, no-store, must-revalidate">> >> }

\* Each of the four headers is present, once, with its value.
HasCORS(r) ==
    \A hd \in CORSHeaders :
        /\ \E i \in 1..Len(r.headers) : r.headers[i] = hd
        /\ Cardinality({i \in 1..Len(r.headers) : r.headers[i][1] = hd[1]}) = 1

\* The request line names HTTP/1.0 or HTTP/1.1.
Http1(words) == Len(words) = 3 /\ words[3] \in {"HTTP/1.0", "HTTP/1.1"}

WithoutDate(hs) == SelectSeq(hs, LAMBDA x : x[1] # "Date")

InitialFs == [f \in Files |-> IF f = "/api-client-demo.html" THEN <<0>> ELSE <<>>]

\* C1 as stated: every response the server sends, whatever the request,
\* carries the four fixed headers with their exact values.
C1_EveryResponseHasHeaders == resp.sent => HasCORS(resp)

\* C1 amended: every response to a request whose request line names HTTP/1.0
\* or HTTP/1.1 carries the four fixed headers with their exact values,
\* error responses and redirects included; a response for which the handler
\* works at HTTP/0.9 carries no header at all.
C1_Http1ResponsesHaveHeaders ==
    resp.sent =>
        /\ Http1(resp.line) => HasCORS(resp)
        /\ resp.request_version = "HTTP/0.9" => resp.headers = <<>>

\* C1 witness: an error response to an HTTP/1.1 request, carrying the headers.
C1_Witness ==
    /\ resp.sent
    /\ resp.line = <<"PUT", "/nope", "HTTP/1.1">>
    /\ resp.code = 501
    /\ HasCORS(resp)

\* C2 as stated: any OPTIONS request, to any path, gets status 200, an empty
\* body and the four fixed headers, without the files being consulted.
C2_EveryOptionsIs200 ==
    (resp.sent /\ resp.command = "OPTIONS") =>
        /\ resp.status_line /\ resp.code = 200
        /\ resp.body = <<>>
        /\ HasCORS(resp)
        /\ ~resp.fsConsulted

\* C2 amended: an OPTIONS request whose request line names HTTP/1.0 or
\* HTTP/1.1 gets status 200, an empty body and the four fixed headers; the
\* files are not consulted and the response is the same for every path.
C2_Http1OptionsIs200 ==
    (resp.sent /\ resp.command = "OPTIONS" /\ Http1(resp.line)) =>
        /\ resp.status_line /\ resp.code = 200
        /\ resp.body = <<>>
        /\ HasCORS(resp)
        /\ ~resp.fsConsulted
        /\ WithoutDate(resp.headers) =
             << <<"Server", <<"SimpleHTTP/0.6">> >>,
                <<"Access-Control-Allow-Origin", <<"*">> >>,
                <<"Access-Control-Allow-Methods", <<"GET, POST, PUT, DELETE, OPTIONS">> >>,
                <<"Access-Control-Allow-Headers", <<"Content-Type, Authorization">> >>,
                <<"Cache-Control", <<"no-cache, no-store, must-revalidate">> >> >>

\* C2 witness: OPTIONS to the path of an existing file answered with the bare 200.
C2_Witness ==
    /\ resp.sent
    /\ resp.line = <<"OPTIONS", "/api-client-demo.html", "HTTP/1.1">>
    /\ fs["/api-client-demo.html"] # <<>>
    /\ resp.code = 200
    /\ resp.body = <<>>

\* The path of a GET names no file and no directory of the served tree.
NoSuchFile(p) == p \notin Dirs /\ (p \in Files => fs[p] = <<>>)

\* C3 as stated: a GET for a path with no file gets status 404 and the four
\* fixed headers.
C3_MissingFileIs404WithHeaders ==
    (resp.sent /\ resp.command = "GET" /\ NoSuchFile(resp.line[2])) =>
        /\ resp.status_line /\ resp.code = 404
        /\ HasCORS(resp)

\* C3 amended: a GET whose request line names HTTP/1.0 or HTTP/1.1, for a
\* path with no file, gets status 404 and the four fixed headers.
C3_Http1MissingFileIs404WithHeaders ==
    (resp.sent /\ resp.command = "GET" /\ Http1(resp.line) /\ NoSuchFile(resp.line[2])) =>
        /\ resp.status_line /\ resp.code = 404
        /\ HasCORS(resp)

\* C3 witness: the demo page was deleted and a GET for it got the 404.
C3_Witness ==
    /\ resp.sent
    /\ resp.line = <<"GET", "/api-client-demo.html", "HTTP/1.1">>
    /\ fs["/api-client-demo.html"] = <<>>
    /\ resp.code = 404
    /\ HasCORS(resp)

\* C4: an interrupt received in the serve loop prints the notice, ends the
\* accepting of connections, does not block in shutdown(), releases the
\* socket and ends the process with status 0.
C4_InterruptInLoopStopsCleanly ==
    sigAt = "loop" =>
        /\ pc \in {"except", "shutdown_wait", "with_exit", "exited"}
        /\ active = <<>>
        /\ pc = "shutdown_wait" => is_shut_down
        /\ pc \in {"shutdown_wait", "with_exit", "exited"} => "stopped" \in printed
        /\ pc = "exited" => (exitStatus = 0 /\ ~sock.bound /\ backlog = 0)

\* C4 witness: the process ended after an interrupt in the serve loop.
C4_Witness ==
    /\ sigAt = "loop"
    /\ pc = "exited"
    /\ exitStatus = 0
    /\ "stopped" \in printed

\* The first argument is present and is no integer literal.
C5_BadArgument == argv # <<>> /\ argv[1] \in {<<"a", "b", "c">>, <<>>}

\* C5: a startup error (argument not an integer, bind refused) ends the
\* process at once with a non-zero status: no serve loop, no request served,
\* no second bind.
C5_StartupErrorsAreFatal ==
    /\ bindAttempts <= 1
    /\ startupError # "none" =>
          /\ pc = "exited" /\ exitStatus # 0
          /\ ~sock.bound /\ ~enteredLoop /\ ~resp.sent /\ "log" \notin printed
    /\ (C5_BadArgument /\ pc # "main") =>
          /\ pc = "exited" /\ exitStatus # 0
          /\ bindAttempts = 0 /\ ~enteredLoop
    /\ (pc = "exited" /\ bindAttempts = 1 /\ ~enteredLoop /\ sigAt = "none") =>
          startupError \in {"OverflowError", "PermissionError", "AddressInUse"}

\* C5 witness: the port was taken and the process ended after its one bind.
C5_Witness ==
    /\ startupError = "AddressInUse"
    /\ pc = "exited"
    /\ exitStatus = 1
    /\ bindAttempts = 1

\* C6: after requests that ended in error responses or exceptions the server
\* is still up: the loop runs, the socket is bound, a waiting connection is
\* accepted.
C6_RequestErrorsDoNotStopServer ==
    (requestErrors /\ sigAt = "none") =>
        /\ pc \in {"select", "handling", "responded"}
        /\ sock.bound
        /\ startupError = "none"
        /\ (pc = "select" /\ backlog > 0) => ENABLED Accept

\* C6 witness: a file is served with 200 after an earlier request failed.
C6_Witness ==
    /\ requestErrors
    /\ "traceback" \in printed
    /\ resp.sent
    /\ resp.line = <<"GET", "/api-client-demo.html", "HTTP/1.1">>
    /\ resp.code = 200

\* C7: at most one request is in handling at any moment; a connection is
\* accepted only when none is in handling.
C7_OneRequestAtATime ==
    /\ Len(active) <= 1
    /\ pc \in {"handling", "responded"} => Len(active) = 1
    /\ pc \notin {"handling", "responded"} => (active = <<>> /\ ~resp.sent)

\* C7 witness: a second client waits in the listen queue while the first
\* request is in handling.
C7_Witness ==
    /\ pc = "responded"
    /\ Len(active) = 1
    /\ backlog > 0

\* C8 as stated: a GET repeated with the files unchanged gets the same body
\* and the same headers.
C8_RepeatedGetIdentical ==
    (resp.sent /\ prev.kept /\ prev.r.line = resp.line) =>
        /\ resp.body = prev.r.body
        /\ resp.headers = prev.r.headers

\* C8 amended: a GET repeated with the files unchanged gets the same status,
\* the same body and the same headers except for the value of Date, the
\* time of the response; serving changes no file.
C8_RepeatedGetIdenticalButDate ==
    /\ (resp.sent /\ prev.kept /\ prev.r.line = resp.line) =>
          /\ resp.body = prev.r.body
          /\ resp.code = prev.r.code
          /\ resp.status_line = prev.r.status_line
          /\ WithoutDate(resp.headers) = WithoutDate(prev.r.headers)
          /\ [i \in 1..Len(resp.headers) |-> resp.headers[i][1]]
               = [i \in 1..Len(prev.r.headers) |-> prev.r.headers[i][1]]
    /\ prev.kept => prev.r.epoch = epoch

\* C8 witness: the same GET answered a second later, differing in Date only.
C8_Witness ==
    /\ resp.sent /\ prev.kept
    /\ prev.r.line = resp.line
    /\ resp.line = <<"GET", "/api-client-demo.html", "HTTP/1.1">>
    /\ resp.code = 200
    /\ resp.headers # prev.r.headers

\* The port the command line asks for, -1 when the argument is out of range
\* or no integer.
C9_Requested ==
    IF argv = <<>> THEN 8080
    ELSE IF argv[1] = <<"9", "0", "9", "0">> THEN 9090
    ELSE IF argv[1] = <<"8", "0">> THEN 80
    ELSE IF argv[1] = <<"0">> THEN 0
    ELSE -1

\* C9 as stated: no argument binds port 8080, an integer argument N binds
\* exactly port N, on all interfaces.
C9_BindsRequestedPort ==
    sock.bound => (sock.host = "" /\ sock.port = C9_Requested)

\* C9 amended: no argument binds port 8080; an integer argument N from 1 to
\* 65535 binds exactly port N; both on all interfaces, with one bind. (An
\* argument of 0 binds a port the system picks.)
C9_BindsRequestedNonZeroPort ==
    sock.bound =>
        /\ sock.host = ""
        /\ bindAttempts = 1
        /\ C9_Requested # 0 => sock.port = C9_Requested
        /\ C9_Requested = 0 => sock.port \in EphemeralPorts

\* C9 witness: the server is up on port 9090 after being started with 9090.
C9_Witness ==
    /\ sock.bound
    /\ argv = << <<"9", "0", "9", "0">> >>
    /\ sock.port = 9090
    /\ pc = "select"

\* C10: only OPTIONS is special-cased. GET and HEAD go to the file-serving
\* code; POST, PUT and DELETE get the 501 error response, not a file and not
\* a 200; no request changes a file.
C10_OtherMethodsNotHandled ==
    /\ (resp.sent /\ resp.command \in {"POST", "PUT", "DELETE"}) =>
          /\ resp.code = 501
          /\ resp.body = <<"error", "501", resp.command>>
          /\ ~resp.fsConsulted
          /\ Http1(resp.line) => (resp.status_line /\ HasCORS(resp))
    /\ (resp.sent /\ resp.command \in {"GET", "HEAD"}) => resp.fsConsulted
    /\ (resp.sent /\ resp.command = "OPTIONS") => ~resp.fsConsulted
    /\ epoch = 0 => fs = InitialFs

\* C10 witness: DELETE on the demo page got the 501 and the page is still there.
C10_Witness ==
    /\ resp.sent
    /\ resp.line = <<"DELETE", "/api-client-demo.html", "HTTP/1.1">>
    /\ resp.code = 501
    /\ epoch = 0
    /\ fs["/api-client-demo.html"] = <<0>>

-----------------------------------------------------------------------------
Next ==
    \/ Main
    \/ Chdir
    \/ TCPServerInit
    \/ PrintBanner
    \/ ServeForever
    \/ Accept
    \/ HandleRequest
    \/ HandleError
    \/ FinishRequest
    \/ KeyboardInterrupt
    \/ ExceptKeyboardInterrupt
    \/ ShutdownWait
    \/ ServerClose
    \/ Connect
    \/ Tick
    \/ EditFile

Spec == Init /\ [][Next]_vars

=============================================================================
